---- MODULE Spec2Model ----
(***************************************************************************)
(* Lead-scraper job pipeline: the job store, the pipeline run by           *)
(* ScrapingOrchestrator.process_job, the Celery task process_job_pipeline  *)
(* that drives it, and the job endpoints of the HTTP API.                  *)
(*                                                                         *)
(* Every database commit and every awaited provider call of the source is  *)
(* one step, so runs of the pipeline, API requests and Celery retries      *)
(* interleave exactly where the source awaits.                             *)
(*                                                                         *)
(* Conventions:                                                            *)
(*   - a Python string is a sequence of one-character strings;             *)
(*   - None (and a key a dict does not have) is the value None for text    *)
(*     fields, NoScore for scores and NoId for ids;                        *)
(*   - completeness and confidence scores are fractions counted in         *)
(*     sixtieths (ScoreDenom), quality_score is an integer;                *)
(*   - a timestamp is TRUE when set, FALSE when NULL.                      *)
(***************************************************************************)
EXTENDS Integers, Sequences, FiniteSets, TLC

---------------------------------------------------------------------------
(* Bounds of the model *)

MaxJobs == 1          \* job rows create_scraping_job may insert
MaxRuns == 2          \* executions of the task process_job_pipeline
MaxCancels == 1       \* cancel requests per behaviour
MaxDedupLen == 3      \* records in a list given to _deduplicate_leads
MaxEnrichLeads == 2   \* leads in a list given to enrich_leads
MaxBatchLeads == 5    \* leads in a list enrich_leads works through in batches

---------------------------------------------------------------------------
(* Program constants *)

max_concurrent_jobs == 5
max_retries == 3
ScoreDenom == 60
DefaultQuality == 50

QUEUED == "queued"
PROCESSING == "processing"
COMPLETED == "completed"
FAILED == "failed"
CANCELLED == "cancelled"
JobStatus == {QUEUED, PROCESSING, COMPLETED, FAILED, CANCELLED}
Terminal == {COMPLETED, FAILED, CANCELLED}

BASIC == "basic"
STANDARD == "standard"
PREMIUM == "premium"
ScrapingIntensity == {BASIC, STANDARD, PREMIUM}

GOOGLE_MAPS == "google_maps"
GOOGLE_BUSINESS == "google_business"
LINKEDIN == "linkedin"
FACEBOOK == "facebook"
INSTAGRAM == "instagram"
GOOGLE_SEARCH == "google_search"
PlatformType ==
    {GOOGLE_MAPS, GOOGLE_BUSINESS, LINKEDIN, FACEBOOK, INSTAGRAM, GOOGLE_SEARCH}

None == <<"None">>
NoScore == -1
NoId == 0
NoMsg == "None"
NoPlatform == "None"

---------------------------------------------------------------------------
(* Python strings *)

Lower(c) ==
    CASE c = "A" -> "a"
      [] c = "B" -> "b"
      [] c = "Z" -> "z"
      [] OTHER -> c

RECURSIVE LStrip(_)
LStrip(s) ==
    IF s = <<>> THEN <<>>
    ELSE IF Head(s) = " " THEN LStrip(Tail(s)) ELSE s

RECURSIVE RStrip(_)
RStrip(s) ==
    IF s = <<>> THEN <<>>
    ELSE IF s[Len(s)] = " " THEN RStrip(SubSeq(s, 1, Len(s) - 1)) ELSE s

strip(s) == RStrip(LStrip(s))

lower(s) == [i \in 1..Len(s) |-> Lower(s[i])]

\* dict.get(key, default): the default stands in for a key the dict lacks
get(value, default) == IF value = None THEN default ELSE value

\* Python truthiness of an optional string
Truthy(s) == s /= None /\ s /= <<>>

Min(a, b) == IF a <= b THEN a ELSE b

---------------------------------------------------------------------------
(* Records the discovery providers may return *)

sAcme == <<"A", "c", "m", "e">>
sAcmeLow == <<" ", "a", "c", "m", "e", " ">>
sBolt == <<"B", "o", "l", "t">>
sPhone1 == <<"5", "5", "5", "1">>
sPhone2 == <<"5", "5", "5", "2">>
sMail == <<"a", "@", "b">>
sSite == <<"h", "t", "t", "p">>
sAddr == <<"1", " ", "M", "a", "i", "n">>
sPerson == <<"A", "n", "n">>
sBlank == <<" ">>

RawLead(name, business, phone, email, website, address, platform, q, c, f) ==
    [id |-> NoId, name |-> name, business_name |-> business, phone |-> phone,
     email |-> email, website |-> website, address |-> address,
     source_platform |-> platform, enrichment_data |-> {},
     quality_score |-> q, completeness_score |-> c, confidence_score |-> f]

\* What GoogleMapsDiscovery.search builds: every contact field, scores set
MapsLeadA ==
    RawLead(sPerson, sAcme, sPhone1, sMail, sSite, sAddr, GOOGLE_MAPS, 80, 45, 48)
MapsLeadB ==
    RawLead(sPerson, sBolt, sPhone2, sMail, sSite, sAddr, GOOGLE_MAPS, 60, 36, 42)
\* What GoogleBusinessDiscovery.search builds: no email
BusinessLeadA ==
    RawLead(sPerson, sAcmeLow, sPhone1, None, sSite, sAddr, GOOGLE_BUSINESS, 70, 42, 45)
BusinessLeadC ==
    RawLead(sPerson, None, None, None, sSite, sAddr, GOOGLE_BUSINESS, 50, 30, 36)

\* One provider call raises, or returns a list of records
Raises == [raised |-> TRUE, leads |-> <<>>]
Returns(leads) == [raised |-> FALSE, leads |-> leads]

\* Outcomes of one call of the primary provider
GoogleMapsOutcomes ==
    {Raises, Returns(<<MapsLeadA>>), Returns(<<MapsLeadA, MapsLeadB>>)}

\* Outcomes of one call of the secondary provider
GoogleBusinessOutcomes ==
    {Raises, Returns(<<BusinessLeadA>>)}

---------------------------------------------------------------------------
(* EntryPointDiscoveryService *)

\* (lead.get('business_name', '').lower().strip(), lead.get('phone', '').strip())
identifier_of(lead) ==
    <<strip(lower(get(lead.business_name, <<>>))), strip(get(lead.phone, <<>>))>>

\* any(identifier)
any(pair) == pair[1] /= <<>> \/ pair[2] /= <<>>

RECURSIVE DedupFrom(_, _, _)
DedupFrom(leads, seen, unique_leads) ==
    IF leads = <<>> THEN unique_leads
    ELSE LET lead == Head(leads)
             identifier == <<strip(lower(get(lead.business_name, <<>>))),
                             strip(get(lead.phone, <<>>))>>
             keep == identifier \notin seen
                     /\ (identifier[1] /= <<>> \/ identifier[2] /= <<>>)
         IN  IF keep
             THEN DedupFrom(Tail(leads), seen \cup {identifier},
                            Append(unique_leads, lead))
             ELSE DedupFrom(Tail(leads), seen, unique_leads)

\* _deduplicate_leads that never adds to seen: every keyed record is kept
_deduplicate_leads_SeenNotUpdated(leads) ==
    SelectSeq(leads, LAMBDA lead : any(identifier_of(lead)))

_deduplicate_leads(leads) == DedupFrom(leads, {}, <<>>)

\* Take without the slice: the whole list is returned
Take_NoTruncation(s, n) == s

\* deduplicated_leads[:max_results]
Take(s, n) == SubSeq(s, 1, Min(Len(s), n))

\* SecondaryCalled that also asks the secondary provider when the primary
\* filled max_results exactly
SecondaryCalled_WhenFull(google, max_results) == Len(google.leads) <= max_results

\* discover, given what the two provider calls do; the secondary provider is
\* called only when the primary left all_leads short of max_results
SecondaryCalled(google, max_results) == Len(google.leads) < max_results

\* The search calls discover makes, in order, with the max_results each is given
searches(google, max_results) ==
    <<[provider |-> GOOGLE_MAPS, max_results |-> max_results]>>
    \o IF SecondaryCalled(google, max_results)
       THEN <<[provider |-> GOOGLE_BUSINESS,
               max_results |-> max_results - Len(google.leads)]>>
       ELSE <<>>

discover(google, business, max_results) ==
    LET all_leads1 == google.leads
        all_leads2 == IF SecondaryCalled(google, max_results)
                      THEN all_leads1 \o business.leads
                      ELSE all_leads1
    IN  Take(_deduplicate_leads(all_leads2), max_results)

---------------------------------------------------------------------------
(* PlatformEnrichmentService *)

enrichers == {LINKEDIN, FACEBOOK, INSTAGRAM, GOOGLE_SEARCH}

intensity_configs(intensity) ==
    CASE intensity = BASIC -> [depth |-> 1, concurrent_requests |-> 5]
      [] intensity = STANDARD -> [depth |-> 2, concurrent_requests |-> 3]
      [] intensity = PREMIUM -> [depth |-> 3, concurrent_requests |-> 2]

\* The payload an enricher returns: one whole dict per (platform, depth)
Payload(platform, config) == [platform |-> platform, depth |-> config.depth]

\* enrichment_data is a dict: a set of <<key, payload>> with one pair per key
Keys(enrichment_data) == {kv[1] : kv \in enrichment_data}
SetItem(enrichment_data, key, payload) ==
    {kv \in enrichment_data : kv[1] /= key} \cup {<<key, payload>>}

\* _calculate_enrichment_scores without min(1.0, ...) on the completeness
_calculate_enrichment_scores_NoCap(lead) ==
    LET base_fields == <<lead.name, lead.business_name, lead.phone,
                         lead.email, lead.website, lead.address>>
        filled_base == Cardinality({i \in 1..6 : Truthy(base_fields[i])})
        base_completeness == filled_base * (ScoreDenom \div 6)
        enrichment_bonus == Cardinality(lead.enrichment_data) * (ScoreDenom \div 10)
        total_completeness == base_completeness + enrichment_bonus
        platform_count == Cardinality(lead.enrichment_data)
    IN  [quality_score |-> (total_completeness * 100) \div ScoreDenom,
         completeness_score |-> total_completeness,
         confidence_score |-> Min(57, 36 + platform_count * (ScoreDenom \div 10))]

_calculate_enrichment_scores(lead) ==
    LET base_fields == <<lead.name, lead.business_name, lead.phone,
                         lead.email, lead.website, lead.address>>
        filled_base == Cardinality({i \in 1..6 : Truthy(base_fields[i])})
        base_completeness == filled_base * (ScoreDenom \div 6)
        enrichment_bonus == Cardinality(lead.enrichment_data) * (ScoreDenom \div 10)
        total_completeness == Min(ScoreDenom, base_completeness + enrichment_bonus)
        platform_count == Cardinality(lead.enrichment_data)
    IN  [quality_score |-> (total_completeness * 100) \div ScoreDenom,
         completeness_score |-> total_completeness,
         confidence_score |-> Min(57, 36 + platform_count * (ScoreDenom \div 10))]

\* The loop over the requested platforms; failing is the set of platforms
\* whose enricher raises for this lead
RECURSIVE EnrichPlatforms(_, _, _, _)
EnrichPlatforms(enrichment_data, platforms, config, failing) ==
    IF platforms = <<>> THEN enrichment_data
    ELSE LET platform == Head(platforms)
             next == IF platform \in enrichers /\ platform \notin failing
                     THEN SetItem(enrichment_data, platform, Payload(platform, config))
                     ELSE enrichment_data
         IN  EnrichPlatforms(next, Tail(platforms), config, failing)

\* _enrich_single_lead without the try/except inside the loop: the first
\* enricher that raises ends the loop, later platforms are not asked
_enrich_single_lead_FailureEndsLoop(lead, platforms, config, failing) ==
    LET raising == {k \in DOMAIN platforms :
                      platforms[k] \in enrichers /\ platforms[k] \in failing}
        asked == IF raising = {} THEN platforms
                 ELSE SubSeq(platforms, 1,
                             (CHOOSE k \in raising : \A o \in raising : k <= o) - 1)
        enriched_lead ==
            [lead EXCEPT !.enrichment_data =
                EnrichPlatforms(lead.enrichment_data, asked, config, failing)]
        scores == _calculate_enrichment_scores(enriched_lead)
    IN  [enriched_lead EXCEPT !.quality_score = scores.quality_score,
                              !.completeness_score = scores.completeness_score,
                              !.confidence_score = scores.confidence_score]

_enrich_single_lead(lead, platforms, config, failing) ==
    LET enriched_lead ==
            [lead EXCEPT !.enrichment_data =
                EnrichPlatforms(lead.enrichment_data, platforms, config, failing)]
        scores == _calculate_enrichment_scores(enriched_lead)
    IN  [enriched_lead EXCEPT !.quality_score = scores.quality_score,
                              !.completeness_score = scores.completeness_score,
                              !.confidence_score = scores.confidence_score]

\* enrich_leads: batches of concurrent_requests leads, results collected in
\* input order; failures is the set of <<lead index, platform>> enricher calls
\* that raise
enrich_leads(leads, platforms, intensity, failures) ==
    LET config == intensity_configs(intensity)
    IN  [i \in 1..Len(leads) |->
            _enrich_single_lead(leads[i], platforms, config,
                                {f[2] : f \in {g \in failures : g[1] = i}})]

\* The enricher calls whose exception _enrich_single_lead catches and logs:
\* the except clause is reached only from a call of a platform in enrichers
LoggedFailures(leads, platforms, failures) ==
    {f \in failures :
        /\ f[1] \in 1..Len(leads)
        /\ f[2] \in enrichers
        /\ \E k \in DOMAIN platforms : platforms[k] = f[2]}

---------------------------------------------------------------------------
(* Requests *)

ScrapingRequest(platforms, intensity, max_results) ==
    [platforms |-> platforms, intensity |-> intensity, max_results |-> max_results]

\* The requests submitted in the model
Requests ==
    {ScrapingRequest(<<GOOGLE_MAPS>>, BASIC, 2),
     ScrapingRequest(<<GOOGLE_MAPS, LINKEDIN>>, PREMIUM, 1)}

NoParams == ScrapingRequest(<<>>, BASIC, 0)

\* str(e) of the exception a statement of the try block raises
StageExceptionTexts == {"invalid value"}

\* str(e) of the exception the status write of the except block raises
StoreExceptionTexts == {"connection lost"}

---------------------------------------------------------------------------
(* State *)

VARIABLES
    jobs,             \* table scraping_jobs: job id -> row, ids are 1..Len(jobs)
    leads,            \* table leads, in insertion order
    run,              \* the executions of process_job_pipeline, in starting order
    active_jobs,      \* ScrapingOrchestrator.active_jobs of each task's orchestrator
    request,          \* the cancel request being served
    response,         \* the last response of the HTTP API
    cancels,          \* cancel requests received so far
    cancelled_queued  \* history: jobs whose cancellation found them Queued

vars == <<jobs, leads, run, active_jobs, request, response, cancels,
          cancelled_queued>>

JobIds == 1..MaxJobs
Runs == DOMAIN run
Exists(job_id) == job_id \in DOMAIN jobs

IdleRun ==
    [pc |-> "idle", job_id |-> NoId, params |-> NoParams, initial_leads |-> <<>>,
     enriched_leads |-> <<>>, exc |-> NoMsg, retries |-> 0, result |-> NoMsg]

NoRequest == [pc |-> "idle", job_id |-> NoId, status |-> NoMsg]
NoResponse == [op |-> "none", job_id |-> NoId, code |-> 0]

Init ==
    /\ jobs = <<>>
    /\ leads = <<>>
    /\ run = [r \in 1..MaxRuns |-> IdleRun]
    /\ active_jobs = [r \in 1..MaxRuns |-> {}]
    /\ request = NoRequest
    /\ response = NoResponse
    /\ cancels = 0
    /\ cancelled_queued = {}

---------------------------------------------------------------------------
(* Job store *)

NewJob(params) ==
    [status |-> QUEUED, progress |-> 0, results_count |-> 0,
     error_message |-> NoMsg, retry_count |-> 0,
     started_at |-> FALSE, completed_at |-> FALSE, request_params |-> params]

\* UPDATE scraping_jobs SET ... WHERE id = job_id: no row, no change
UpdateJob(job_id, row) ==
    IF Exists(job_id) THEN [jobs EXCEPT ![job_id] = row] ELSE jobs

\* _update_job_status that drops the completed_at it is given
_update_job_status_DropsCompletedAt(job_id, status, error_message, started_at, completed_at) ==
    IF ~Exists(job_id) THEN jobs
    ELSE LET job == jobs[job_id]
         IN  UpdateJob(job_id,
                [job EXCEPT
                    !.status = status,
                    !.error_message =
                        IF error_message /= NoMsg THEN error_message ELSE @,
                    !.started_at = IF started_at THEN TRUE ELSE @])

\* _update_job_status writes the status and the optional columns given
_update_job_status(job_id, status, error_message, started_at, completed_at) ==
    IF ~Exists(job_id) THEN jobs
    ELSE LET job == jobs[job_id]
         IN  UpdateJob(job_id,
                [job EXCEPT
                    !.status = status,
                    !.error_message =
                        IF error_message /= NoMsg THEN error_message ELSE @,
                    !.started_at = IF started_at THEN TRUE ELSE @,
                    !.completed_at = IF completed_at THEN TRUE ELSE @])

_update_job_progress(job_id, progress) ==
    IF ~Exists(job_id) THEN jobs
    ELSE UpdateJob(job_id, [jobs[job_id] EXCEPT !.progress = progress])

LeadsOf(job_id) == {i \in DOMAIN leads : leads[i].job_id = job_id}

---------------------------------------------------------------------------
(* HTTP API *)

\* POST /jobs.  The row is committed and process_job is handed to the
\* request's BackgroundTasks; _estimate_job_duration then raises NameError
\* (routes.py never imports ScrapingIntensity), the handler answers 500 and
\* the background task of the failed request is never started.
create_scraping_job(params) ==
    /\ jobs' = Append(jobs, NewJob(params))
    /\ response' = [op |-> "create", job_id |-> Len(jobs) + 1, code |-> 500]
    /\ UNCHANGED <<leads, run, active_jobs, request, cancels, cancelled_queued>>

\* cancel_job_select with FAILED left out of the statuses it rejects
cancel_job_select_AcceptsFailed(job_id) ==
    /\ request.pc = "idle"
    /\ cancels' = cancels + 1
    /\ IF ~Exists(job_id)
       THEN /\ response' = [op |-> "cancel", job_id |-> job_id, code |-> 404]
            /\ UNCHANGED request
       ELSE IF jobs[job_id].status \in {COMPLETED, CANCELLED}
       THEN /\ response' = [op |-> "cancel", job_id |-> job_id, code |-> 400]
            /\ UNCHANGED request
       ELSE /\ request' = [pc |-> "commit", job_id |-> job_id,
                           status |-> jobs[job_id].status]
            /\ UNCHANGED response
    /\ UNCHANGED <<jobs, leads, run, active_jobs, cancelled_queued>>

\* DELETE /jobs/{job_id}, up to the checks on the row it selected
cancel_job_select(job_id) ==
    /\ request.pc = "idle"
    /\ cancels' = cancels + 1
    /\ IF ~Exists(job_id)
       THEN /\ response' = [op |-> "cancel", job_id |-> job_id, code |-> 404]
            /\ UNCHANGED request
       ELSE IF jobs[job_id].status \in {COMPLETED, FAILED, CANCELLED}
       THEN /\ response' = [op |-> "cancel", job_id |-> job_id, code |-> 400]
            /\ UNCHANGED request
       ELSE /\ request' = [pc |-> "commit", job_id |-> job_id,
                           status |-> jobs[job_id].status]
            /\ UNCHANGED response
    /\ UNCHANGED <<jobs, leads, run, active_jobs, cancelled_queued>>

\* DELETE /jobs/{job_id}: the commit of status and completed_at
cancel_job_commit ==
    /\ request.pc = "commit"
    /\ jobs' = UpdateJob(request.job_id,
                  [jobs[request.job_id] EXCEPT !.status = CANCELLED,
                                               !.completed_at = TRUE])
    /\ cancelled_queued' =
          IF jobs[request.job_id].status = QUEUED
          THEN cancelled_queued \cup {request.job_id}
          ELSE cancelled_queued
    /\ response' = [op |-> "cancel", job_id |-> request.job_id, code |-> 200]
    /\ request' = NoRequest
    /\ UNCHANGED <<leads, run, active_jobs, cancels>>

\* GET /jobs/{job_id}/results with the default page: 404 for an unknown job,
\* else the status, results_count and the lead rows of the job
get_job_results(job_id) ==
    IF ~Exists(job_id)
    THEN [code |-> 404, status |-> NoMsg, total_results |-> 0, leads |-> {}]
    ELSE [code |-> 200, status |-> jobs[job_id].status,
          total_results |-> jobs[job_id].results_count,
          leads |-> {leads[i] : i \in LeadsOf(job_id)}]

---------------------------------------------------------------------------
(* ScrapingOrchestrator: helpers of process_job *)

\* The Lead row _save_leads builds from one discovered record
LeadRow(id, job_id, lead_data) ==
    [id |-> id, job_id |-> job_id,
     name |-> lead_data.name, business_name |-> lead_data.business_name,
     phone |-> lead_data.phone, email |-> lead_data.email,
     website |-> lead_data.website, address |-> lead_data.address,
     source_platform |->
        IF lead_data.source_platform = NoPlatform THEN GOOGLE_MAPS
        ELSE lead_data.source_platform,
     enrichment_data |-> lead_data.enrichment_data,
     quality_score |->
        IF lead_data.quality_score = NoScore THEN DefaultQuality
        ELSE lead_data.quality_score,
     completeness_score |-> lead_data.completeness_score,
     confidence_score |-> lead_data.confidence_score]

\* _save_leads that leaves the last record out of the insert
_save_leads_DropsLast(job_id, leads_data) ==
    leads \o [i \in 1..(Len(leads_data) - 1) |->
                LeadRow(Len(leads) + i, job_id, leads_data[i])]

\* session.add_all(leads); commit
_save_leads(job_id, leads_data) ==
    leads \o [i \in 1..Len(leads_data) |->
                LeadRow(Len(leads) + i, job_id, leads_data[i])]

\* The rows after _update_leads_enrichment: only a record with an 'id' key
\* updates the row of that id
RECURSIVE _update_leads_enrichment(_, _)
_update_leads_enrichment(rows, enriched_leads) ==
    IF enriched_leads = <<>> THEN rows
    ELSE LET lead_data == Head(enriched_leads)
             updated ==
                IF lead_data.id /= NoId
                THEN [i \in DOMAIN rows |->
                        IF rows[i].id = lead_data.id
                        THEN [rows[i] EXCEPT
                                !.enrichment_data = lead_data.enrichment_data,
                                !.quality_score = lead_data.quality_score,
                                !.completeness_score = lead_data.completeness_score,
                                !.confidence_score = lead_data.confidence_score]
                        ELSE rows[i]]
                ELSE rows
         IN  _update_leads_enrichment(updated, Tail(enriched_leads))

\* field and field.strip()
Filled(field) == field /= None /\ strip(field) /= <<>>

\* The scores _calculate_quality_scores gives one lead row
QualityScores(lead) ==
    LET fields == <<lead.name, lead.business_name, lead.phone,
                    lead.email, lead.website, lead.address>>
        filled_fields == Cardinality({i \in 1..6 : Filled(fields[i])})
        completeness_score == filled_fields * (ScoreDenom \div 6)
        base_quality == (filled_fields * 100) \div 6
        quality_score ==
            IF lead.enrichment_data /= {}
            THEN Min(100, base_quality + Min(Cardinality(lead.enrichment_data), 20))
            ELSE base_quality
    IN  [quality_score |-> quality_score,
         completeness_score |-> completeness_score,
         confidence_score |-> IF quality_score > 70 THEN 48 ELSE 36]

_calculate_quality_scores(job_id) ==
    [i \in DOMAIN leads |->
        IF leads[i].job_id = job_id
        THEN LET scores == QualityScores(leads[i])
             IN  [leads[i] EXCEPT
                    !.quality_score = scores.quality_score,
                    !.completeness_score = scores.completeness_score,
                    !.confidence_score = scores.confidence_score]
        ELSE leads[i]]

\* EnrichmentEnabled with `and` in the place of `or`
EnrichmentEnabled_BothNeeded(params) ==
    Len(params.platforms) > 1 /\ params.intensity /= BASIC

\* if len(platforms) > 1 or intensity != BASIC
EnrichmentEnabled(params) ==
    Len(params.platforms) > 1 \/ params.intensity /= BASIC

\* [PlatformType(p) for p in platforms if p != GOOGLE_MAPS]
EnrichmentPlatforms(params) ==
    SelectSeq(params.platforms, LAMBDA p : p /= GOOGLE_MAPS)

\* finally: del self.active_jobs[job_id] when it is registered
Finally(r) ==
    [active_jobs EXCEPT ![r] = @ \ {run[r].job_id}]

\* The statements of the try block, by the awaited call each one ends with
TryPcs ==
    {"select", "set_processing", "progress10", "discover", "progress30",
     "save_leads", "results_count", "progress40", "enrich",
     "update_enrichment", "progress80", "score", "progress90", "finalize",
     "progress100"}

\* The stages that run once the job was moved to Processing
StagePcs == TryPcs \ {"select", "set_processing"}

At(r, pc) == run[r].pc = pc
Goto(r, pc) == [run EXCEPT ![r].pc = pc]

\* process_job returned to process_job_pipeline, which returns "completed"
Returned(r) ==
    [run EXCEPT ![r].pc = "done", ![r].result = "completed",
                ![r].initial_leads = <<>>, ![r].enriched_leads = <<>>]

---------------------------------------------------------------------------
(* Celery task process_job_pipeline and ScrapingOrchestrator.process_job *)

\* A worker takes process_job_pipeline(job_id) from the queue: a new
\* ScrapingOrchestrator, then process_job(job_id)
process_job_pipeline(r, job_id) ==
    /\ At(r, "idle")
    /\ \A o \in Runs : o < r => ~At(o, "idle")
    /\ run' = [run EXCEPT ![r].pc = "select", ![r].job_id = job_id]
    /\ active_jobs' = [active_jobs EXCEPT ![r] = {}]
    /\ UNCHANGED <<jobs, leads, request, response, cancels, cancelled_queued>>

\* SelectJob that stores a row for an unknown id before it returns
SelectJob_CreatesMissing(r) ==
    /\ At(r, "select")
    /\ IF Exists(run[r].job_id)
       THEN /\ run' = [run EXCEPT ![r].pc = "set_processing",
                                   ![r].params = jobs[run[r].job_id].request_params]
            /\ UNCHANGED <<jobs, active_jobs>>
       ELSE /\ run' = Returned(r)
            /\ jobs' = Append(jobs, NewJob(NoParams))
            /\ active_jobs' = Finally(r)
    /\ UNCHANGED <<leads, request, response, cancels, cancelled_queued>>

\* select(ScrapingJob); an unknown id is logged and process_job returns
SelectJob(r) ==
    /\ At(r, "select")
    /\ IF Exists(run[r].job_id)
       THEN /\ run' = [run EXCEPT ![r].pc = "set_processing",
                                   ![r].params = jobs[run[r].job_id].request_params]
            /\ UNCHANGED active_jobs
       ELSE /\ run' = Returned(r)
            /\ active_jobs' = Finally(r)
    /\ UNCHANGED <<jobs, leads, request, response, cancels, cancelled_queued>>

\* _update_job_status(PROCESSING, started_at=now)
SetProcessing(r) ==
    /\ At(r, "set_processing")
    /\ jobs' = _update_job_status(run[r].job_id, PROCESSING, NoMsg, TRUE, FALSE)
    /\ run' = Goto(r, "progress10")
    /\ UNCHANGED <<leads, active_jobs, request, response, cancels, cancelled_queued>>

\* One call of _update_job_progress in process_job
ProgressStep(r, pc, progress, next) ==
    /\ At(r, pc)
    /\ jobs' = _update_job_progress(run[r].job_id, progress)
    /\ run' = Goto(r, next)
    /\ UNCHANGED <<leads, active_jobs, request, response, cancels, cancelled_queued>>

Progress10(r) == ProgressStep(r, "progress10", 10, "discover")

\* Discover without the try/except around the primary provider call: its
\* exception leaves discover and reaches the except block of process_job
Discover_ProviderErrorPropagates(r, google, business) ==
    /\ At(r, "discover")
    /\ run' = IF google.raised
              THEN [run EXCEPT ![r].pc = "except", ![r].exc = "invalid value"]
              ELSE [run EXCEPT
                      ![r].pc = "progress30",
                      ![r].initial_leads =
                          discover(google, business, run[r].params.max_results)]
    /\ UNCHANGED <<jobs, leads, active_jobs, request, response, cancels,
                   cancelled_queued>>

\* discovery_service.discover: both provider calls and the deduplication
Discover(r, google, business) ==
    /\ At(r, "discover")
    /\ run' = [run EXCEPT
                ![r].pc = "progress30",
                ![r].initial_leads = discover(google, business, run[r].params.max_results)]
    /\ UNCHANGED <<jobs, leads, active_jobs, request, response, cancels,
                   cancelled_queued>>

\* Progress30 that goes on to the results_count write, past the insert
Progress30_SkipsPersistence(r) == ProgressStep(r, "progress30", 30, "results_count")

Progress30(r) == ProgressStep(r, "progress30", 30, "save_leads")

\* _save_leads: the rows are committed
SaveLeads(r) ==
    /\ At(r, "save_leads")
    /\ leads' = _save_leads(run[r].job_id, run[r].initial_leads)
    /\ run' = Goto(r, "results_count")
    /\ UNCHANGED <<jobs, active_jobs, request, response, cancels, cancelled_queued>>

\* _save_leads: results_count = len(leads_data) is committed
SaveResultsCount(r) ==
    /\ At(r, "results_count")
    /\ jobs' = IF Exists(run[r].job_id)
               THEN UpdateJob(run[r].job_id,
                        [jobs[run[r].job_id] EXCEPT
                            !.results_count = Len(run[r].initial_leads)])
               ELSE jobs
    /\ run' = Goto(r, "progress40")
    /\ UNCHANGED <<leads, active_jobs, request, response, cancels, cancelled_queued>>

Progress40(r) ==
    ProgressStep(r, "progress40", 40,
                 IF EnrichmentEnabled(run[r].params) THEN "enrich" ELSE "score")

\* enrichment_service.enrich_leads over the discovered records
Enrich(r, failures) ==
    /\ At(r, "enrich")
    /\ run' = [run EXCEPT
                ![r].pc = "update_enrichment",
                ![r].enriched_leads =
                    enrich_leads(run[r].initial_leads,
                                 EnrichmentPlatforms(run[r].params),
                                 run[r].params.intensity, failures)]
    /\ UNCHANGED <<jobs, leads, active_jobs, request, response, cancels,
                   cancelled_queued>>

UpdateLeadsEnrichment(r) ==
    /\ At(r, "update_enrichment")
    /\ leads' = _update_leads_enrichment(leads, run[r].enriched_leads)
    /\ run' = Goto(r, "progress80")
    /\ UNCHANGED <<jobs, active_jobs, request, response, cancels, cancelled_queued>>

Progress80(r) == ProgressStep(r, "progress80", 80, "score")

CalculateQualityScores(r) ==
    /\ At(r, "score")
    /\ leads' = _calculate_quality_scores(run[r].job_id)
    /\ run' = Goto(r, "progress90")
    /\ UNCHANGED <<jobs, active_jobs, request, response, cancels, cancelled_queued>>

Progress90(r) == ProgressStep(r, "progress90", 90, "finalize")

\* _finalize_job: _update_job_status(COMPLETED, completed_at=now)
FinalizeJob(r) ==
    /\ At(r, "finalize")
    /\ jobs' = _update_job_status(run[r].job_id, COMPLETED, NoMsg, FALSE, TRUE)
    /\ run' = Goto(r, "progress100")
    /\ UNCHANGED <<leads, active_jobs, request, response, cancels, cancelled_queued>>

\* The last statement of the try block; process_job then returns
Progress100(r) ==
    /\ At(r, "progress100")
    /\ jobs' = _update_job_progress(run[r].job_id, 100)
    /\ run' = Returned(r)
    /\ active_jobs' = Finally(r)
    /\ UNCHANGED <<leads, request, response, cancels, cancelled_queued>>

\* An awaited call of the try block raises instead of completing
StageRaises(r, text) ==
    /\ run[r].pc \in TryPcs
    /\ run' = [run EXCEPT ![r].pc = "except", ![r].exc = text,
                          ![r].initial_leads = <<>>, ![r].enriched_leads = <<>>]
    /\ UNCHANGED <<jobs, leads, active_jobs, request, response, cancels,
                   cancelled_queued>>

\* ExceptHandler that also deletes the lead rows of the failed job
ExceptHandler_DiscardsLeads(r) ==
    /\ At(r, "except")
    /\ jobs' = _update_job_status(run[r].job_id, FAILED, run[r].exc, FALSE, TRUE)
    /\ leads' = SelectSeq(leads, LAMBDA lead : lead.job_id /= run[r].job_id)
    /\ run' = Returned(r)
    /\ active_jobs' = Finally(r)
    /\ UNCHANGED <<request, response, cancels, cancelled_queued>>

\* except Exception: the job is marked Failed; nothing is raised again, so
\* process_job returns normally
ExceptHandler(r) ==
    /\ At(r, "except")
    /\ jobs' = _update_job_status(run[r].job_id, FAILED, run[r].exc, FALSE, TRUE)
    /\ run' = Returned(r)
    /\ active_jobs' = Finally(r)
    /\ UNCHANGED <<leads, request, response, cancels, cancelled_queued>>

\* The status write of the except block raises itself: the exception leaves
\* process_job and reaches the except block of process_job_pipeline
ExceptHandlerRaises(r, text) ==
    /\ At(r, "except")
    /\ run' = [run EXCEPT ![r].pc = "task_except", ![r].exc = text]
    /\ active_jobs' = Finally(r)
    /\ UNCHANGED <<jobs, leads, request, response, cancels, cancelled_queued>>

\* _update_job_status_failed(job_id, str(e))
_update_job_status_failed(job_id, error_message) ==
    IF ~Exists(job_id) THEN jobs
    ELSE UpdateJob(job_id,
            [jobs[job_id] EXCEPT !.status = FAILED,
                                 !.error_message = error_message,
                                 !.completed_at = TRUE])

\* TaskExcept without the call of _update_job_status_failed
TaskExcept_NoStatusWrite(r) ==
    /\ At(r, "task_except")
    /\ run' = IF run[r].retries < max_retries
              THEN [run EXCEPT ![r].pc = "retry"]
              ELSE [run EXCEPT ![r].pc = "done", ![r].result = "failed"]
    /\ UNCHANGED <<jobs, leads, active_jobs, request, response, cancels,
                   cancelled_queued>>

\* except block of process_job_pipeline: mark the job Failed, then
\* self.retry, which queues the task again until max_retries is used up
TaskExcept(r) ==
    /\ At(r, "task_except")
    /\ jobs' = _update_job_status_failed(run[r].job_id, run[r].exc)
    /\ run' = IF run[r].retries < max_retries
              THEN [run EXCEPT ![r].pc = "retry"]
              ELSE [run EXCEPT ![r].pc = "done", ![r].result = "failed"]
    /\ UNCHANGED <<leads, active_jobs, request, response, cancels, cancelled_queued>>

\* A worker takes the retried task from the queue: execution q is the next
\* execution of the task whose execution r failed
RetryTask(r, q) ==
    /\ At(r, "retry")
    /\ At(q, "idle")
    /\ \A o \in Runs : o < q => ~At(o, "idle")
    /\ run' = [run EXCEPT
                ![r].pc = "done", ![r].result = "retried",
                ![q].pc = "select", ![q].job_id = run[r].job_id,
                ![q].retries = run[r].retries + 1]
    /\ active_jobs' = [active_jobs EXCEPT ![q] = {}]
    /\ UNCHANGED <<jobs, leads, request, response, cancels, cancelled_queued>>

---------------------------------------------------------------------------
(* Specification *)

\* The enricher calls of one enrich_leads call that may raise
EnricherCalls(r) ==
    {<<i, p>> : i \in 1..Len(run[r].initial_leads),
                p \in {q \in enrichers :
                         \E k \in DOMAIN run[r].params.platforms :
                            run[r].params.platforms[k] = q}}

RunStep(r) ==
    \/ SelectJob(r)
    \/ SetProcessing(r)
    \/ Progress10(r)
    \/ \E google \in GoogleMapsOutcomes, business \in GoogleBusinessOutcomes :
          Discover(r, google, business)
    \/ Progress30(r)
    \/ SaveLeads(r)
    \/ SaveResultsCount(r)
    \/ Progress40(r)
    \/ \E failures \in SUBSET EnricherCalls(r) : Enrich(r, failures)
    \/ UpdateLeadsEnrichment(r)
    \/ Progress80(r)
    \/ CalculateQualityScores(r)
    \/ Progress90(r)
    \/ FinalizeJob(r)
    \/ Progress100(r)
    \/ ExceptHandler(r)

Next ==
    \/ \E params \in Requests :
          Len(jobs) < MaxJobs /\ create_scraping_job(params)
    \/ \E job_id \in JobIds :
          cancels < MaxCancels /\ cancel_job_select(job_id)
    \/ cancel_job_commit
    \/ \E r \in Runs, job_id \in JobIds : process_job_pipeline(r, job_id)
    \/ \E r \in Runs : RunStep(r)
    \/ \E r \in Runs, text \in StageExceptionTexts : StageRaises(r, text)
    \/ \E r \in Runs, text \in StoreExceptionTexts : ExceptHandlerRaises(r, text)
    \/ \E r \in Runs : TaskExcept(r)
    \/ \E r \in Runs, q \in Runs : RetryTask(r, q)

Spec == Init /\ [][Next]_vars

---------------------------------------------------------------------------
(* Specification SpecMany: more jobs than max_concurrent_jobs.             *)
(*                                                                         *)
(* One execution per job, execution r for job r, one request shape, the    *)
(* providers answering one way.  Executions of different jobs touch        *)
(* different rows, so only one order of their later stages is explored:    *)
(* every execution may start and move its job to Processing at any time,   *)
(* the stages after that run in the order of the job ids.  Every           *)
(* behaviour of SpecMany is a behaviour of the program.                    *)

ManyJobs == max_concurrent_jobs + 1

BasicRequest == ScrapingRequest(<<GOOGLE_MAPS>>, BASIC, 2)

InitMany ==
    /\ jobs = <<>>
    /\ leads = <<>>
    /\ run = [r \in 1..ManyJobs |-> IdleRun]
    /\ active_jobs = [r \in 1..ManyJobs |-> {}]
    /\ request = NoRequest
    /\ response = NoResponse
    /\ cancels = 0
    /\ cancelled_queued = {}

LaterStage(r) ==
    \/ Progress10(r)
    \/ Discover(r, Returns(<<MapsLeadA>>), Raises)
    \/ Progress30(r)
    \/ SaveLeads(r)
    \/ SaveResultsCount(r)
    \/ Progress40(r)
    \/ CalculateQualityScores(r)
    \/ Progress90(r)
    \/ FinalizeJob(r)
    \/ Progress100(r)

NextMany ==
    \/ Len(jobs) < ManyJobs /\ create_scraping_job(BasicRequest)
    \/ \E r \in Runs : Exists(r) /\ process_job_pipeline(r, r)
    \/ \E r \in Runs : SelectJob(r)
    \/ \E r \in Runs : SetProcessing(r)
    \/ \E r \in Runs :
          /\ \A q \in Runs : q < r => At(q, "done")
          /\ \A q \in Runs : q > r => At(q, "progress10")
          /\ LaterStage(r)

SpecMany == InitMany /\ [][NextMany]_vars

---------------------------------------------------------------------------
(* Claims *)

JobOf(r) == run[r].job_id
InFlight(r) == run[r].pc \in StagePcs
Stepped(r) == run'[r] /= run[r]

\* C1: Completed, Failed and Cancelled are absorbing: once the stored status
\* of a job is one of them, no step changes it to another value.
C1_TerminalAbsorbing ==
    [][\A j \in DOMAIN jobs :
          jobs[j].status \in Terminal => jobs'[j].status = jobs[j].status]_vars

\* C2: at most one execution per job is active: no two executions of
\* process_job for the same job are past the Queued -> Processing step and
\* in the pipeline stages at the same time.
C2_AtMostOneActive ==
    \A r \in Runs, q \in Runs :
        (r /= q /\ InFlight(r) /\ InFlight(q)) => JobOf(r) /= JobOf(q)

\* C3: while a job stays Processing, its stored progress never decreases.
C3_ProgressMonotone ==
    [][\A j \in DOMAIN jobs :
          (jobs[j].status = PROCESSING /\ jobs'[j].status = PROCESSING)
              => jobs'[j].progress >= jobs[j].progress]_vars

\* C4: a job whose cancellation found it Queued stays Cancelled with
\* completed_at set, and no lead is ever persisted for it.
C4_CancelQueuedFinal ==
    \A j \in cancelled_queued :
        /\ jobs[j].status = CANCELLED
        /\ jobs[j].completed_at
        /\ LeadsOf(j) = {}

\* C5: once a cancel request was accepted for a job an execution is
\* processing, that execution writes nothing more: no step of it changes the
\* job rows or the lead rows.
C5_CancelObserved ==
    [][\A r \in Runs :
          (/\ InFlight(r)
           /\ Exists(JobOf(r))
           /\ jobs[JobOf(r)].status = CANCELLED
           /\ JobOf(r) \notin cancelled_queued
           /\ Stepped(r))
              => (jobs' = jobs /\ leads' = leads)]_vars

C7_ConcurrencyLimit ==
    Cardinality({j \in DOMAIN jobs : jobs[j].status = PROCESSING})
        <= max_concurrent_jobs

C9_ExceptionSurfaced ==
    \A r \in Runs :
        (At(r, "done") /\ run[r].exc /= NoMsg) => run[r].result /= "completed"

\* C10: a failing discovery provider does not fail the job.  When both
\* provider calls raise, discover returns the empty list and process_job goes
\* on to the next stage; an execution that discovered nothing stores
\* results_count = 0, then the status Completed, then progress 100, and
\* returns (each write unless its own store call raises); and when it was the
\* only execution for the job and no cancel request came, the job is left
\* Completed with results_count = 0, not Processing.
C10_EmptyDiscoveryCompletes ==
    /\ \A request_params \in Requests :
          discover(Raises, Raises, request_params.max_results) = <<>>
    /\ [](\A r \in Runs :
            At(r, "discover")
              => ENABLED (/\ Discover(r, Raises, Raises)
                          /\ run'[r].pc = "progress30"
                          /\ run'[r].initial_leads = <<>>))
    /\ [](\A r \in Runs :
            (/\ At(r, "done")
             /\ run[r].result = "completed"
             /\ run[r].exc = NoMsg
             /\ run[r].params /= NoParams
             /\ \A q \in Runs : q /= r => At(q, "idle")
             /\ cancels = 0
             /\ LeadsOf(JobOf(r)) = {})
              => /\ jobs[JobOf(r)].status = COMPLETED
                 /\ jobs[JobOf(r)].results_count = 0
                 /\ jobs[JobOf(r)].progress = 100
                 /\ jobs[JobOf(r)].completed_at)
    /\ [][\A r \in Runs :
            (/\ Exists(JobOf(r))
             /\ run[r].initial_leads = <<>>
             /\ Stepped(r)
             /\ run'[r].pc /= "except")
              => /\ At(r, "results_count")
                    => jobs'[JobOf(r)].results_count = 0
                 /\ At(r, "finalize")
                    => /\ jobs'[JobOf(r)].status = COMPLETED
                       /\ jobs'[JobOf(r)].results_count = jobs[JobOf(r)].results_count
                 /\ At(r, "progress100")
                    => /\ run'[r].pc = "done"
                       /\ run'[r].result = "completed"
                       /\ jobs'[JobOf(r)].progress = 100]_vars

---------------------------------------------------------------------------
(* Witnesses *)

C10_Witness ==
    \E r \in Runs :
        /\ At(r, "done")
        /\ run[r].result = "completed"
        /\ run[r].exc = NoMsg
        /\ Exists(JobOf(r))
        /\ \A q \in Runs : q /= r => At(q, "idle")
        /\ jobs[JobOf(r)].status = COMPLETED
        /\ jobs[JobOf(r)].results_count = 0
        /\ jobs[JobOf(r)].progress = 100
        /\ LeadsOf(JobOf(r)) = {}

---------------------------------------------------------------------------
(* Claims on the order of the stages, persistence and discovery output *)

\* The statements of the try block in the order of the source
StageOrder ==
    <<"select", "set_processing", "progress10", "discover", "progress30",
      "save_leads", "results_count", "progress40", "enrich",
      "update_enrichment", "progress80", "score", "progress90", "finalize",
      "progress100">>

Rank(pc) == CHOOSE i \in DOMAIN StageOrder : StageOrder[i] = pc

\* C11: within one execution of process_job the stages occur in the fixed
\* order of the source.  Every step of an execution inside the try block goes
\* to the next statement, the only jump being from the progress 40 write to
\* the score recomputation when enrichment is disabled; lead rows are
\* inserted only by the save_leads statement, after discovery returned; the
\* enrichment call starts only when every discovered record of the execution
\* has its row; lead rows are rewritten only by the enrichment write and,
\* after it, by the score recomputation; and the execution writes Completed
\* only in the finalize statement, after the score recomputation.
C11_StageOrder ==
    /\ [](\A r \in Runs :
            (run[r].pc \in TryPcs /\ Rank(run[r].pc) > Rank("save_leads"))
              => Cardinality(LeadsOf(JobOf(r))) >= Len(run[r].initial_leads))
    /\ [][\A r \in Runs :
            Stepped(r) /\ run[r].pc \in TryPcs
              => /\ run'[r].pc \in TryPcs
                    => \/ Rank(run'[r].pc) = Rank(run[r].pc) + 1
                       \/ /\ At(r, "progress40")
                          /\ run'[r].pc = "score"
                          /\ ~EnrichmentEnabled(run[r].params)
                 /\ run'[r].pc = "enrich" => EnrichmentEnabled(run[r].params)
                 /\ Len(leads') /= Len(leads) => At(r, "save_leads")
                 /\ leads' /= leads
                    => run[r].pc \in {"save_leads", "update_enrichment", "score"}
                 /\ run'[r].initial_leads /= run[r].initial_leads
                    => At(r, "discover") \/ run'[r].pc \in {"except", "done"}
                 /\ run'[r].enriched_leads /= run[r].enriched_leads
                    => At(r, "enrich") \/ run'[r].pc \in {"except", "done"}
                 /\ (Exists(JobOf(r)) /\ jobs'[JobOf(r)].status = COMPLETED
                        /\ jobs[JobOf(r)].status /= COMPLETED)
                    => At(r, "finalize")]_vars

\* C11: an execution with enrichment enabled went through every stage and
\* returned, its job Completed with lead rows
C11_Witness ==
    \E r \in Runs :
        /\ At(r, "done")
        /\ run[r].result = "completed"
        /\ run[r].exc = NoMsg
        /\ Exists(JobOf(r))
        /\ EnrichmentEnabled(run[r].params)
        /\ jobs[JobOf(r)].status = COMPLETED
        /\ jobs[JobOf(r)].progress = 100
        /\ LeadsOf(JobOf(r)) /= {}

\* C12: the leads of a job are persisted at most once: once a job has lead
\* rows, no step adds a row for it.
C12_PersistAtMostOnce ==
    [][\A j \in JobIds :
          LeadsOf(j) /= {}
            => {i \in DOMAIN leads' : leads'[i].job_id = j} = LeadsOf(j)]_vars

\* C13: results_count of a job is at most the number of lead rows of the
\* job, in every state; a step that writes results_count finds the rows it
\* counts already committed.
C13_ResultsCountBounded ==
    /\ [](\A j \in DOMAIN jobs :
            jobs[j].results_count <= Cardinality(LeadsOf(j)))
    /\ [][\A j \in DOMAIN jobs :
            jobs'[j].results_count /= jobs[j].results_count
              => /\ jobs'[j].results_count <= Cardinality(LeadsOf(j))
                 /\ leads' = leads]_vars

\* C13: a job whose second execution inserted rows again: more rows than
\* results_count
C13_Witness ==
    \E j \in DOMAIN jobs :
        /\ jobs[j].results_count >= 1
        /\ Cardinality(LeadsOf(j)) > jobs[j].results_count

\* C14: the list discover returns is no longer than max_results, so
\* results_count of a job never exceeds the max_results of its request.
C14_ResultsWithinMax ==
    /\ \A r \in Runs : Len(run[r].initial_leads) <= run[r].params.max_results
    /\ \A j \in DOMAIN jobs :
          jobs[j].results_count <= jobs[j].request_params.max_results

\* C14: a job that asked for one result has exactly one, and the primary
\* provider can return more than that
C14_Witness ==
    /\ \E google \in GoogleMapsOutcomes :
          Len(_deduplicate_leads(google.leads)) > 1
    /\ \E j \in DOMAIN jobs :
          /\ jobs[j].request_params.max_results = 1
          /\ jobs[j].results_count = 1
          /\ Cardinality(LeadsOf(j)) = 1

\* C15: every lead row of a job submitted with platforms = [google_maps] and
\* intensity basic has source_platform google_maps.
C15_PrimaryOnlySource ==
    \A j \in DOMAIN jobs :
        (jobs[j].request_params.platforms = <<GOOGLE_MAPS>>
            /\ jobs[j].request_params.intensity = BASIC)
          => \A i \in LeadsOf(j) : leads[i].source_platform = GOOGLE_MAPS

---------------------------------------------------------------------------
(* Specification SpecCalls: the services called on their own.              *)
(*                                                                         *)
(* One call per behaviour: request holds the call and its arguments,       *)
(* response what the call returned; _save_leads and                        *)
(* _calculate_quality_scores work on the leads table of job 1.             *)

\* A record with the contact fields of the set filled kept and the others
\* missing; scored records carry the scores a provider gave them
FieldLead(filled, scored, enrichment_data) ==
    [id |-> NoId,
     name |-> IF 1 \in filled THEN sPerson ELSE None,
     business_name |-> IF 2 \in filled THEN sAcme ELSE None,
     phone |-> IF 3 \in filled THEN sPhone1 ELSE None,
     email |-> IF 4 \in filled THEN sMail ELSE None,
     website |-> IF 5 \in filled THEN sSite ELSE None,
     address |-> IF 6 \in filled THEN sAddr ELSE None,
     source_platform |-> GOOGLE_MAPS, enrichment_data |-> enrichment_data,
     quality_score |-> IF scored THEN 95 ELSE NoScore,
     completeness_score |-> IF scored THEN 54 ELSE NoScore,
     confidence_score |-> IF scored THEN 57 ELSE NoScore]

\* Records with 0 to 6 contact fields filled
FilledSets == {1..k : k \in 0..6}

\* enrichment_data with 0 to 4 platform keys
EnricherOrder == <<LINKEDIN, FACEBOOK, INSTAGRAM, GOOGLE_SEARCH>>
EnrichmentSets ==
    {{<<EnricherOrder[i], Payload(EnricherOrder[i], intensity_configs(BASIC))>> :
        i \in 1..k} : k \in 0..4}

\* Records whose business_name and phone are blank or share a key
BlankLead ==
    RawLead(sPerson, sBlank, sBlank, sMail, sSite, sAddr, GOOGLE_BUSINESS, 50, 30, 36)
MapsLeadD ==
    RawLead(sPerson, sAcme, sPhone2, sMail, sSite, sAddr, GOOGLE_MAPS, 60, 36, 42)

DedupCatalogue ==
    {MapsLeadA, MapsLeadB, MapsLeadD, BusinessLeadA, BusinessLeadC, BlankLead}

ListsOf(S, n) == UNION {[1..k -> S] : k \in 0..n}

\* The platform lists given to enrich_leads
PlatformLists ==
    {<<>>, <<LINKEDIN>>, <<LINKEDIN, FACEBOOK>>, <<GOOGLE_BUSINESS, LINKEDIN>>,
     <<LINKEDIN, FACEBOOK, INSTAGRAM, GOOGLE_SEARCH>>}

Call(op, leads_data, platforms, intensity, failures) ==
    [op |-> op, leads |-> leads_data, platforms |-> platforms,
     intensity |-> intensity, failures |-> failures]

Return(op, result, logged) == [op |-> op, result |-> result, logged |-> logged]

NotCalled == Return("none", <<>>, {})

\* The enricher calls of enrich_leads(leads, platforms, ...)
CallsOf(leads_data, platforms) ==
    {<<i, platforms[k]>> : i \in 1..Len(leads_data), k \in DOMAIN platforms}

DedupCalls ==
    {Call("_deduplicate_leads", leads_data, <<>>, BASIC, {}) :
        leads_data \in ListsOf(DedupCatalogue, MaxDedupLen)}

\* enrich_leads on one record, any number of fields, any platform list
EnrichOneCalls ==
    UNION {UNION {{Call("enrich_leads", <<FieldLead(filled, FALSE, {})>>,
                        platforms, intensity, failures) :
                      failures \in SUBSET CallsOf(<<1>>, platforms),
                      intensity \in ScrapingIntensity} :
                  platforms \in PlatformLists} :
           filled \in FilledSets}

\* enrich_leads on lists of records, platform lists of at most two
EnrichManyCalls ==
    UNION {UNION {{Call("enrich_leads", leads_data, platforms, intensity, failures) :
                      failures \in SUBSET CallsOf(leads_data, platforms),
                      intensity \in ScrapingIntensity} :
                  platforms \in {p \in PlatformLists : Len(p) <= 2}} :
           leads_data \in ListsOf({MapsLeadA, BusinessLeadC}, MaxEnrichLeads)}

SaveCalls ==
    {Call("_save_leads", <<FieldLead(filled, scored, enrichment_data)>>,
          <<>>, BASIC, {}) :
        filled \in FilledSets, scored \in BOOLEAN,
        enrichment_data \in EnrichmentSets}

\* discover with a primary provider that raises or finds 0 to 3 records
DiscoverCalls ==
    {[op |-> "discover", leads |-> <<>>, platforms |-> <<>>, intensity |-> BASIC,
      failures |-> {}, google |-> google, business |-> business,
      max_results |-> max_results] :
        google \in GoogleMapsOutcomes
                     \cup {Returns(<<>>), Returns(<<MapsLeadA, MapsLeadB, MapsLeadD>>)},
        business \in GoogleBusinessOutcomes
                     \cup {Returns(<<BusinessLeadA, BusinessLeadC>>)},
        max_results \in 1..3}

InitCalls ==
    /\ jobs = <<NewJob(BasicRequest)>>
    /\ leads = <<>>
    /\ run = <<>>
    /\ active_jobs = <<>>
    /\ request \in DedupCalls \cup EnrichOneCalls \cup EnrichManyCalls \cup SaveCalls
                    \cup DiscoverCalls
    /\ response = NotCalled
    /\ cancels = 0
    /\ cancelled_queued = {}

\* discover: deduplicated_leads = self._deduplicate_leads(all_leads)
CallDeduplicateLeads ==
    /\ request.op = "_deduplicate_leads"
    /\ response = NotCalled
    /\ response' = Return("_deduplicate_leads", _deduplicate_leads(request.leads), {})
    /\ UNCHANGED <<jobs, leads, run, active_jobs, request, cancels, cancelled_queued>>

\* enrichment_service.enrich_leads(leads, platforms, intensity)
CallEnrichLeads ==
    /\ request.op = "enrich_leads"
    /\ response = NotCalled
    /\ response' =
          Return("enrich_leads",
                 enrich_leads(request.leads, request.platforms,
                              request.intensity, request.failures),
                 LoggedFailures(request.leads, request.platforms, request.failures))
    /\ UNCHANGED <<jobs, leads, run, active_jobs, request, cancels, cancelled_queued>>

\* self._save_leads(session, job_id, initial_leads): the insert
CallSaveLeads ==
    /\ request.op = "_save_leads"
    /\ response = NotCalled
    /\ leads' = _save_leads(1, request.leads)
    /\ response' = Return("_save_leads", <<>>, {})
    /\ UNCHANGED <<jobs, run, active_jobs, request, cancels, cancelled_queued>>

\* self._calculate_quality_scores(session, job_id) on the rows saved
CallCalculateQualityScores ==
    /\ response.op = "_save_leads"
    /\ leads' = _calculate_quality_scores(1)
    /\ response' = Return("_calculate_quality_scores", <<>>, {})
    /\ UNCHANGED <<jobs, run, active_jobs, request, cancels, cancelled_queued>>

\* discovery_service.discover(...): the searches made and the list returned
CallDiscover ==
    /\ request.op = "discover"
    /\ response = NotCalled
    /\ response' =
          [op |-> "discover",
           result |-> discover(request.google, request.business, request.max_results),
           logged |-> {}, searches |-> searches(request.google, request.max_results)]
    /\ UNCHANGED <<jobs, leads, run, active_jobs, request, cancels, cancelled_queued>>

NextCalls ==
    \/ CallDiscover
    \/ CallDeduplicateLeads
    \/ CallEnrichLeads
    \/ CallSaveLeads
    \/ CallCalculateQualityScores

SpecCalls == InitCalls /\ [][NextCalls]_vars

---------------------------------------------------------------------------
(* Claims on the services *)

\* The elements of s at the positions of S, in the order of s
Restrict(s, S) ==
    [k \in 1..Cardinality(S) |->
        s[CHOOSE i \in S : Cardinality({j \in S : j < i}) = k - 1]]

\* The positions of the records that are the first of their non-empty key
FirstKeyed(leads_data) ==
    {i \in DOMAIN leads_data :
        /\ any(identifier_of(leads_data[i]))
        /\ \A j \in 1..(i - 1) :
              identifier_of(leads_data[j]) /= identifier_of(leads_data[i])}

BlankKeyed(leads_data) ==
    {i \in DOMAIN leads_data : ~any(identifier_of(leads_data[i]))}

\* C16: what _deduplicate_leads returns is its input with records left out,
\* the kept ones in their input order; of the records that share a key
\* (business_name lower-cased and trimmed, phone trimmed, not both empty) it
\* keeps exactly the first.
C16_DedupFirstWins ==
    response.op = "_deduplicate_leads"
      => \E S \in SUBSET DOMAIN request.leads :
            /\ response.result = Restrict(request.leads, S)
            /\ S \ BlankKeyed(request.leads) = FirstKeyed(request.leads)

\* C16: the second of three records repeats the key of the first in another
\* spelling and is the one left out
C16_Witness ==
    /\ request.leads = <<MapsLeadA, BusinessLeadA, MapsLeadB>>
    /\ identifier_of(MapsLeadA) = identifier_of(BusinessLeadA)
    /\ MapsLeadA.business_name /= BusinessLeadA.business_name
    /\ response = Return("_deduplicate_leads", <<MapsLeadA, MapsLeadB>>, {})

\* C17: every record whose business_name and phone are both blank is kept
\* by _deduplicate_leads, however many there are.
C17_BlankKeyKept ==
    response.op = "_deduplicate_leads"
      => Cardinality(BlankKeyed(response.result))
            = Cardinality(BlankKeyed(request.leads))

ScoresSet(lead) ==
    /\ lead.quality_score /= NoScore
    /\ lead.completeness_score /= NoScore
    /\ lead.confidence_score /= NoScore

ScoresInRange(lead) ==
    /\ lead.quality_score = NoScore \/ lead.quality_score \in 0..100
    /\ lead.completeness_score = NoScore
          \/ lead.completeness_score \in 0..ScoreDenom
    /\ lead.confidence_score = NoScore
          \/ lead.confidence_score \in 0..ScoreDenom

\* C18: the scores of a lead that are set are in range at every stage:
\* quality_score in 0..100, completeness_score and confidence_score in 0..1
\* (0..ScoreDenom sixtieths), in the rows _save_leads inserts, in the records
\* enrich_leads returns (all three set by its scorer) and in the rows after
\* _calculate_quality_scores (all three set), for 0 to 6 filled fields and 0
\* to 4 platform keys.
C18_ScoreBounds ==
    /\ \A i \in DOMAIN leads : ScoresInRange(leads[i])
    /\ response.op = "_save_leads"
          => \A i \in DOMAIN leads : leads[i].quality_score /= NoScore
    /\ response.op = "_calculate_quality_scores"
          => \A i \in DOMAIN leads : ScoresSet(leads[i])
    /\ response.op = "enrich_leads"
          => \A i \in DOMAIN response.result :
                ScoresInRange(response.result[i]) /\ ScoresSet(response.result[i])

\* C18: a record with six filled fields enriched from four platforms: the
\* completeness is held at 1 and the quality at 100
C18_Witness ==
    /\ response.op = "enrich_leads"
    /\ Len(response.result) = 1
    /\ Cardinality(response.result[1].enrichment_data) = 4
    /\ request.leads[1] = FieldLead(1..6, FALSE, {})
    /\ response.result[1].quality_score = 100
    /\ response.result[1].completeness_score = ScoreDenom

\* C19: for every lead enrich_leads returns and every requested platform,
\* either the lead's enrichment_data holds the platform's key with the whole
\* payload of the provider, or the provider raised for that lead and the
\* failure was logged.
C19_PlatformKeyOrLogged ==
    response.op = "enrich_leads"
      => \A i \in DOMAIN response.result :
            \A k \in DOMAIN request.platforms :
                LET platform == request.platforms[k]
                IN  \/ <<platform,
                         Payload(platform, intensity_configs(request.intensity))>>
                            \in response.result[i].enrichment_data
                    \/ /\ <<i, platform>> \in request.failures
                       /\ <<i, platform>> \in response.logged

\* C20: an enricher that raises for a lead costs the lead only that
\* platform's key: enrich_leads returns one record per input record, in it
\* the payload of every requested platform whose enricher returned, no key
\* for a platform whose enricher raised, the contact fields as given, and
\* the scores recomputed from the record as enriched.
C20_FailureIsolated ==
    response.op = "enrich_leads"
      => /\ Len(response.result) = Len(request.leads)
         /\ \A i \in DOMAIN response.result :
               LET lead == request.leads[i]
                   enriched_lead == response.result[i]
                   config == intensity_configs(request.intensity)
                   returned == {p \in enrichers :
                                  /\ \E k \in DOMAIN request.platforms :
                                        request.platforms[k] = p
                                  /\ <<i, p>> \notin request.failures}
                   scores == _calculate_enrichment_scores(enriched_lead)
               IN  /\ \A p \in returned :
                         <<p, Payload(p, config)>> \in enriched_lead.enrichment_data
                   /\ Keys(enriched_lead.enrichment_data)
                         = Keys(lead.enrichment_data) \cup returned
                   /\ [enriched_lead EXCEPT !.enrichment_data = {},
                                            !.quality_score = NoScore,
                                            !.completeness_score = NoScore,
                                            !.confidence_score = NoScore]
                        = [lead EXCEPT !.enrichment_data = {},
                                       !.quality_score = NoScore,
                                       !.completeness_score = NoScore,
                                       !.confidence_score = NoScore]
                   /\ enriched_lead.quality_score = scores.quality_score
                   /\ enriched_lead.completeness_score = scores.completeness_score
                   /\ enriched_lead.confidence_score = scores.confidence_score
                   /\ enriched_lead.confidence_score
                         = Min(57, 36 + 6 * Cardinality(Keys(lead.enrichment_data)
                                                        \cup returned))

\* C20: the first of two enrichers raised for a lead, the failure was logged
\* and the lead came back with the payload of the second
C20_Witness ==
    /\ response.op = "enrich_leads"
    /\ request.platforms = <<LINKEDIN, FACEBOOK>>
    /\ request.failures = {<<1, LINKEDIN>>}
    /\ response.logged = {<<1, LINKEDIN>>}
    /\ Len(response.result) >= 1
    /\ Keys(response.result[1].enrichment_data) = {FACEBOOK}

---------------------------------------------------------------------------
(* Specification SpecEnrich: one call of enrich_leads, task by task.       *)
(*                                                                         *)
(* request holds the call; response holds the position of the call: the    *)
(* start i of the batch, the per-lead tasks in flight, the tasks that      *)
(* finished, the pauses that elapsed and the list enriched_leads.  The     *)
(* tasks of a batch are started together by asyncio.gather and finish in   *)
(* any order; <<k, task_exception>> in request.failures makes the task of  *)
(* lead k raise.                                                           *)

task_exception == "task"

\* n records that differ from one another
BatchLeads(n) == [k \in 1..n |-> FieldLead(1..k, FALSE, {})]

BatchCalls ==
    UNION {{Call("enrich_leads", BatchLeads(n), <<LINKEDIN>>, intensity, failures) :
              failures \in SUBSET {<<k, task_exception>> : k \in 1..n},
              intensity \in ScrapingIntensity} :
           n \in 0..MaxBatchLeads}

\* batch_size = config["concurrent_requests"]
batch_size == intensity_configs(request.intensity).concurrent_requests

\* batch = leads[i:i + batch_size], as positions of request.leads
batch(i) == {k \in DOMAIN request.leads : i <= k /\ k < i + batch_size}

\* What the task of lead k hands to gather: the enriched record
TaskResult(k) ==
    _enrich_single_lead(request.leads[k], request.platforms,
                        intensity_configs(request.intensity),
                        {f[2] : f \in {g \in request.failures : g[1] = k}})

TaskRaised(k) == <<k, task_exception>> \in request.failures

\* The records of a batch whose task returned a dict, in the order of the batch
RECURSIVE Collect(_, _, _)
Collect(enriched_leads, k, last) ==
    IF k > last THEN enriched_leads
    ELSE Collect(IF TaskRaised(k) THEN enriched_leads
                 ELSE Append(enriched_leads, TaskResult(k)),
                 k + 1, last)

Position(pc, i, in_flight, finished, pauses, enriched_leads) ==
    [op |-> "enrich_leads", pc |-> pc, i |-> i, in_flight |-> in_flight,
     finished |-> finished, pauses |-> pauses, enriched_leads |-> enriched_leads]

InitEnrich ==
    /\ jobs = <<>>
    /\ leads = <<>>
    /\ run = <<>>
    /\ active_jobs = <<>>
    /\ request \in BatchCalls
    /\ response = Position("loop", 1, {}, {}, 0, <<>>)
    /\ cancels = 0
    /\ cancelled_queued = {}

\* EnrichLeadsLoop that hands every remaining lead to one gather
EnrichLeadsLoop_WholeList ==
    /\ response.pc = "loop"
    /\ response.i <= Len(request.leads)
    /\ response' = [response EXCEPT
                      !.pc = "gather",
                      !.in_flight = response.i..Len(request.leads)]
    /\ UNCHANGED <<jobs, leads, run, active_jobs, request, cancels, cancelled_queued>>

\* for i in range(0, len(leads), batch_size): the tasks of the batch are
\* created and asyncio.gather starts them
EnrichLeadsLoop ==
    /\ response.pc = "loop"
    /\ response.i <= Len(request.leads)
    /\ response' = [response EXCEPT !.pc = "gather", !.in_flight = batch(response.i)]
    /\ UNCHANGED <<jobs, leads, run, active_jobs, request, cancels, cancelled_queued>>

\* One task of the batch returns or raises; gather keeps what it gave
TaskFinishes(k) ==
    /\ response.pc = "gather"
    /\ k \in response.in_flight
    /\ response' = [response EXCEPT !.in_flight = @ \ {k},
                                    !.finished = @ \cup {k}]
    /\ UNCHANGED <<jobs, leads, run, active_jobs, request, cancels, cancelled_queued>>

\* EnrichLeadsCollect with gather called without return_exceptions: the
\* exception of a task leaves enrich_leads
EnrichLeadsCollect_Propagates ==
    /\ response.pc = "gather"
    /\ response.in_flight = {}
    /\ response' =
          IF \E k \in batch(response.i) : TaskRaised(k)
          THEN [response EXCEPT !.pc = "raised"]
          ELSE [response EXCEPT
                  !.pc = "sleep",
                  !.enriched_leads =
                      Collect(@, response.i,
                              Min(response.i + batch_size - 1, Len(request.leads)))]
    /\ UNCHANGED <<jobs, leads, run, active_jobs, request, cancels, cancelled_queued>>

\* EnrichLeadsCollect that appends the input record of a task that raised
EnrichLeadsCollect_KeepsRaised ==
    /\ response.pc = "gather"
    /\ response.in_flight = {}
    /\ response' = [response EXCEPT
                      !.pc = "sleep",
                      !.enriched_leads =
                          @ \o [x \in 1..Cardinality(batch(response.i)) |->
                                  IF TaskRaised(response.i + x - 1)
                                  THEN request.leads[response.i + x - 1]
                                  ELSE TaskResult(response.i + x - 1)]]
    /\ UNCHANGED <<jobs, leads, run, active_jobs, request, cancels, cancelled_queued>>

\* gather(return_exceptions=True) returned: the dict results are appended,
\* the exceptions logged
EnrichLeadsCollect ==
    /\ response.pc = "gather"
    /\ response.in_flight = {}
    /\ response' = [response EXCEPT
                      !.pc = "sleep",
                      !.enriched_leads =
                          Collect(@, response.i,
                                  Min(response.i + batch_size - 1, Len(request.leads)))]
    /\ UNCHANGED <<jobs, leads, run, active_jobs, request, cancels, cancelled_queued>>

\* await asyncio.sleep(1), then the next i of the range
EnrichLeadsSleep ==
    /\ response.pc = "sleep"
    /\ response' = [response EXCEPT !.pc = "loop",
                                    !.i = @ + batch_size,
                                    !.pauses = @ + 1]
    /\ UNCHANGED <<jobs, leads, run, active_jobs, request, cancels, cancelled_queued>>

\* The range is exhausted: return enriched_leads
EnrichLeadsReturn ==
    /\ response.pc = "loop"
    /\ response.i > Len(request.leads)
    /\ response' = [response EXCEPT !.pc = "returned"]
    /\ UNCHANGED <<jobs, leads, run, active_jobs, request, cancels, cancelled_queued>>

NextEnrich ==
    \/ EnrichLeadsLoop
    \/ \E k \in DOMAIN request.leads : TaskFinishes(k)
    \/ EnrichLeadsCollect
    \/ EnrichLeadsSleep
    \/ EnrichLeadsReturn

SpecEnrich == InitEnrich /\ [][NextEnrich]_vars

---------------------------------------------------------------------------
(* Claims on enrich_leads, task by task *)

\* C21: a per-lead task that raises costs only its own lead: enrich_leads
\* never raises, and what it returns is the enriched record of every lead
\* whose task did not raise, of the same batch and of later batches, in
\* input order.
C21_TaskFailureIsolated ==
    /\ response.pc /= "raised"
    /\ response.pc = "returned"
          => response.enriched_leads
                = Restrict(enrich_leads(request.leads, request.platforms,
                                        request.intensity, request.failures),
                           {k \in DOMAIN request.leads : ~TaskRaised(k)})

\* C21: the task of the first of three leads raised; its sibling in the
\* batch of two and the lead of the second batch were returned
C21_Witness ==
    /\ response.pc = "returned"
    /\ request.intensity = PREMIUM
    /\ Len(request.leads) = 3
    /\ request.failures = {<<1, task_exception>>}
    /\ Len(response.enriched_leads) = 2
    /\ response.enriched_leads[1].name = request.leads[2].name
    /\ response.enriched_leads[2].website = request.leads[3].website

\* The concurrency setting of the intensity of the call
FanOutLimit ==
    CASE request.intensity = BASIC -> 5
      [] request.intensity = STANDARD -> 3
      [] request.intensity = PREMIUM -> 2

---------------------------------------------------------------------------
(* Claims on failure, submission and the enrichment stage *)

\* C22: the write that marks a job Failed (the except block of process_job,
\* or _update_job_status_failed in the task) deletes and changes no lead
\* row: the results query answers 200 with the same lead rows before and
\* after it.
C22_FailureKeepsLeads ==
    [][\A r \in Runs :
          (/\ Exists(JobOf(r))
           /\ \/ At(r, "except") /\ run'[r].pc = "done"
              \/ At(r, "task_except") /\ run'[r].pc /= "task_except")
            => /\ leads' = leads
               /\ get_job_results(JobOf(r))'.code = 200
               /\ get_job_results(JobOf(r))'.status = FAILED
               /\ get_job_results(JobOf(r))'.leads = get_job_results(JobOf(r)).leads
               /\ get_job_results(JobOf(r))'.total_results
                     = get_job_results(JobOf(r)).total_results]_vars

\* C22: a job failed after its leads were saved and counted; the results
\* query returns them
C22_Witness ==
    \E j \in DOMAIN jobs :
        /\ jobs[j].status = FAILED
        /\ jobs[j].completed_at
        /\ get_job_results(j).total_results >= 1
        /\ Cardinality(get_job_results(j).leads) >= 1

\* C23: a job submission is answered with success.
C23_CreateSucceeds ==
    response.op = "create" => response.code = 200

\* C25: when the enrichment write of an execution is done, every record
\* enrich_leads returned has a lead row of the job that carries its
\* enrichment_data.
C25_EnrichmentWrittenBack ==
    [][\A r \in Runs :
          (At(r, "update_enrichment") /\ run'[r].pc = "progress80")
            => \A k \in DOMAIN run[r].enriched_leads :
                  \E i \in DOMAIN leads' :
                      /\ leads'[i].job_id = JobOf(r)
                      /\ leads'[i].business_name = run[r].enriched_leads[k].business_name
                      /\ leads'[i].enrichment_data
                            = run[r].enriched_leads[k].enrichment_data]_vars

\* C28: every lead of a Completed job has the confidence_score of the final
\* recompute: 0.8 when its quality_score is above 70, else 0.6.
C28_FinalConfidence ==
    \A j \in DOMAIN jobs :
        jobs[j].status = COMPLETED
          => \A i \in LeadsOf(j) :
                leads[i].confidence_score
                    = IF leads[i].quality_score > 70 THEN 48 ELSE 36

---------------------------------------------------------------------------
(* Specification SpecOne: one job and one execution of process_job_pipeline *)
(* for it, over every shape of request.                                     *)

RequestsOne ==
    {ScrapingRequest(platforms, intensity, max_results) :
        platforms \in {<<GOOGLE_MAPS>>, <<LINKEDIN>>, <<GOOGLE_MAPS, LINKEDIN>>,
                       <<GOOGLE_MAPS, GOOGLE_BUSINESS, FACEBOOK>>},
        intensity \in ScrapingIntensity,
        max_results \in {1, 2}}

InitOne ==
    /\ jobs = <<>>
    /\ leads = <<>>
    /\ run = <<IdleRun>>
    /\ active_jobs = <<{}>>
    /\ request = NoRequest
    /\ response = NoResponse
    /\ cancels = 0
    /\ cancelled_queued = {}

NextOne ==
    \/ \E params \in RequestsOne : jobs = <<>> /\ create_scraping_job(params)
    \/ \E r \in Runs : Exists(r) /\ process_job_pipeline(r, r)
    \/ \E r \in Runs : RunStep(r)
    \/ \E r \in Runs, text \in StageExceptionTexts : StageRaises(r, text)

SpecOne == InitOne /\ [][NextOne]_vars

\* C24: process_job runs the enrichment stage exactly when the request has
\* more than one platform or an intensity other than basic: after the
\* progress 40 write it goes to the enrichment call in that case and to the
\* score recomputation otherwise; the enrichment call is enrich_leads over
\* the discovered records with the requested platforms minus google_maps;
\* progress 80 is written only after the enrichment write, so the score
\* recomputation starts at progress 80 when the stage ran and at 40 when not.
C24_EnrichmentCondition ==
    /\ [](\A r \in Runs :
            run[r].pc \in {"enrich", "update_enrichment", "progress80"}
              => \/ Len(run[r].params.platforms) > 1
                 \/ run[r].params.intensity /= BASIC)
    /\ [][\A r \in Runs :
            (Stepped(r) /\ run[r].pc \in TryPcs /\ run'[r].pc \in TryPcs)
              => /\ At(r, "progress40")
                    => run'[r].pc
                          = IF \/ Len(run[r].params.platforms) > 1
                               \/ run[r].params.intensity /= BASIC
                            THEN "enrich" ELSE "score"
                 /\ At(r, "enrich")
                    => \E failures \in SUBSET EnricherCalls(r) :
                          run'[r].enriched_leads
                            = enrich_leads(run[r].initial_leads,
                                  SelectSeq(run[r].params.platforms,
                                            LAMBDA p : p /= GOOGLE_MAPS),
                                  run[r].params.intensity, failures)
                 /\ (jobs[JobOf(r)].progress /= 80 /\ jobs'[JobOf(r)].progress = 80)
                    => At(r, "progress80")
                 /\ At(r, "score")
                    => jobs[JobOf(r)].progress
                          = IF \/ Len(run[r].params.platforms) > 1
                               \/ run[r].params.intensity /= BASIC
                            THEN 80 ELSE 40]_vars

\* C24: a request for google_maps alone at standard intensity went through
\* the enrichment stage, with no platform to ask, and progress is 80
C24_Witness ==
    \E r \in Runs :
        /\ At(r, "score")
        /\ run[r].params.platforms = <<GOOGLE_MAPS>>
        /\ run[r].params.intensity = STANDARD
        /\ jobs[JobOf(r)].progress = 80
        /\ run[r].initial_leads /= <<>>
        /\ \A k \in DOMAIN run[r].enriched_leads :
              run[r].enriched_leads[k].enrichment_data = {}

---------------------------------------------------------------------------
(* Claims on the final score recomputation *)

\* The number of non-empty contact fields of a lead row
NonEmptyFields(lead) ==
    LET fields == <<lead.name, lead.business_name, lead.phone,
                    lead.email, lead.website, lead.address>>
    IN  Cardinality({i \in 1..6 : fields[i] /= None /\ fields[i] /= <<>>})

\* C26: after the final recomputation every lead row, with f non-empty
\* contact fields and p platforms in enrichment_data, has quality_score
\* min(100, round(min(1, f/6 + 0.1 p) * 100) + min(p, 20)); the completeness
\* is counted in sixtieths and rounded to the nearest point.
C26_FinalQuality ==
    response.op = "_calculate_quality_scores"
      => \A i \in DOMAIN leads :
            LET f == NonEmptyFields(leads[i])
                p == Cardinality(Keys(leads[i].enrichment_data))
                total == Min(ScoreDenom, f * (ScoreDenom \div 6) + p * (ScoreDenom \div 10))
            IN  leads[i].quality_score
                  = Min(100, ((total * 100 + ScoreDenom \div 2) \div ScoreDenom) + Min(p, 20))

\* C27: after the final recomputation the completeness_score of every lead
\* row is the one _calculate_enrichment_scores computes for the same fields
\* and enrichment_data, min(1.0, base_completeness + 0.1 per platform).
C27_SameCompleteness ==
    response.op = "_calculate_quality_scores"
      => \A i \in DOMAIN leads :
            leads[i].completeness_score
              = _calculate_enrichment_scores(leads[i]).completeness_score

---------------------------------------------------------------------------
(* Claims on discovery *)

\* C30: discover always asks the primary source first; it asks the secondary
\* source exactly when the primary produced fewer than max_results records
\* (none when it raised), and then for max_results minus the number already
\* found; when the primary filled max_results the primary is the only search.
C30_SecondaryOnlyIfShort ==
    response.op = "discover"
      => LET found == IF request.google.raised THEN 0
                      ELSE Len(request.google.leads)
             secondary ==
                {k \in DOMAIN response.searches :
                    response.searches[k].provider = GOOGLE_BUSINESS}
         IN  /\ response.searches[1].provider = GOOGLE_MAPS
             /\ response.searches[1].max_results = request.max_results
             /\ found >= request.max_results => secondary = {}
             /\ found < request.max_results
                  => /\ secondary = {2}
                     /\ response.searches[2].max_results
                          = request.max_results - found

\* C30: the primary found one record of the three asked for and the
\* secondary was asked for the other two
C30_Witness ==
    /\ response.op = "discover"
    /\ ~request.google.raised
    /\ Len(request.google.leads) = 1
    /\ request.max_results = 3
    /\ Len(response.searches) = 2
    /\ response.searches[2].max_results = 2

---------------------------------------------------------------------------
(* Claims on the job's status, progress and timestamps *)

\* C31: every change of a job's stored status follows an edge of the state
\* machine: to Processing only from Queued, to Completed or Failed only from
\* Processing, to Cancelled only from Queued or Processing.
C31_StatusEdges ==
    [][\A j \in DOMAIN jobs :
          jobs'[j].status /= jobs[j].status
            => \/ jobs'[j].status = PROCESSING /\ jobs[j].status = QUEUED
               \/ /\ jobs'[j].status \in {COMPLETED, FAILED}
                  /\ jobs[j].status = PROCESSING
               \/ /\ jobs'[j].status = CANCELLED
                  /\ jobs[j].status \in {QUEUED, PROCESSING}]_vars

\* C33: in every state a job is Completed exactly when its progress is 100:
\* Completed is never stored with a lower progress, and progress 100 never
\* with another status.
C33_CompletedIffFull ==
    \A j \in DOMAIN jobs : jobs[j].status = COMPLETED <=> jobs[j].progress = 100

\* C34: in every state a job's completed_at is set exactly when its status
\* is Completed, Failed or Cancelled.
C34_CompletedAtIffTerminal ==
    \A j \in DOMAIN jobs : jobs[j].completed_at <=> jobs[j].status \in Terminal

---------------------------------------------------------------------------
(* Specification SpecLive: the task is delivered once and run again only   *)
(* by its retries, and an execution that can take its next step takes it:  *)
(* every awaited call of process_job returns or raises, and the except     *)
(* block of the task runs to its end.                                      *)

NextLive ==
    \/ \E params \in {request_params \in Requests : request_params.intensity = PREMIUM} :
          Len(jobs) < MaxJobs /\ create_scraping_job(params)
    \/ \E job_id \in JobIds :
          cancels < MaxCancels /\ cancel_job_select(job_id)
    \/ cancel_job_commit
    \/ \E job_id \in JobIds : process_job_pipeline(1, job_id)
    \/ \E r \in Runs : RunStep(r)
    \/ \E r \in Runs, text \in StageExceptionTexts : StageRaises(r, text)
    \/ \E r \in Runs, text \in StoreExceptionTexts : ExceptHandlerRaises(r, text)
    \/ \E r \in Runs : TaskExcept(r)
    \/ \E r \in Runs, q \in Runs : RetryTask(r, q)

SpecLive ==
    /\ Init
    /\ [][NextLive]_vars
    /\ \A r \in 1..MaxRuns : WF_vars(RunStep(r)) /\ WF_vars(TaskExcept(r))

---------------------------------------------------------------------------
(* ScrapingOrchestrator.cancel_job and the active-job registry *)

\* ScrapingOrchestrator.cancel_job(job_id) on the orchestrator of execution
\* r: what it returns and the store and registry it leaves
ScrapingOrchestrator_cancel_job(r, job_id) ==
    IF job_id \in active_jobs[r]
    THEN [returned |-> TRUE,
          jobs |-> _update_job_status(job_id, CANCELLED, NoMsg, FALSE, TRUE),
          active_jobs |-> [active_jobs EXCEPT ![r] = @ \ {job_id}]]
    ELSE [returned |-> FALSE, jobs |-> jobs, active_jobs |-> active_jobs]

\* C36: the registry of an orchestrator holds a job id exactly while its
\* process_job for that job is in progress, and cancel_job called on it
\* during that time returns True and leaves the job Cancelled with
\* completed_at set.
C36_RegistryCancel ==
    \A r \in Runs :
        /\ \A j \in JobIds :
              j \in active_jobs[r]
                <=> (run[r].job_id = j /\ run[r].pc \in TryPcs \cup {"except"})
        /\ InFlight(r)
              => LET cancel == ScrapingOrchestrator_cancel_job(r, run[r].job_id)
                 IN  /\ cancel.returned
                     /\ cancel.jobs[run[r].job_id].status = CANCELLED
                     /\ cancel.jobs[run[r].job_id].completed_at

---------------------------------------------------------------------------
(* Claims on process_job for an unknown job *)

\* C37: process_job whose select finds no job with the given id returns
\* without an exception, and that step changes no job row and no lead row;
\* no execution is ever past the select for a job that does not exist.
C37_UnknownJobNoEffect ==
    /\ [](\A r \in Runs : InFlight(r) => Exists(JobOf(r)))
    /\ [][\A r \in Runs :
            (/\ At(r, "select")
             /\ ~Exists(JobOf(r))
             /\ Stepped(r)
             /\ run'[r].pc /= "except")
              => /\ run'[r].pc = "done"
                 /\ run'[r].exc = NoMsg
                 /\ run'[r].result = "completed"
                 /\ jobs' = jobs
                 /\ leads' = leads]_vars

\* C37: an execution for an id that no job has returned, and the store is
\* still empty
C37_Witness ==
    \E r \in Runs :
        /\ At(r, "done")
        /\ JobOf(r) \in JobIds
        /\ ~Exists(JobOf(r))
        /\ run[r].exc = NoMsg
        /\ jobs = <<>>
        /\ leads = <<>>

---------------------------------------------------------------------------
(* Claims on the list enrich_leads returns *)

\* The record is the one discovered as lead: same contact fields
SameLead(record, lead) ==
    /\ record.name = lead.name
    /\ record.business_name = lead.business_name
    /\ record.phone = lead.phone
    /\ record.email = lead.email
    /\ record.website = lead.website
    /\ record.address = lead.address

\* C38: the list enrich_leads returns holds every input lead at most once
\* and in input order; a lead whose task raised is not in it, in any form;
\* and when no task raised it holds one enriched record per input lead.
C38_OncePerLeadInOrder ==
    response.pc = "returned"
      => LET out == response.enriched_leads
             origins(x) == {k \in DOMAIN request.leads : SameLead(out[x], request.leads[k])}
         IN  /\ \A x \in DOMAIN out : Cardinality(origins(x)) = 1
             /\ \A x \in DOMAIN out, y \in DOMAIN out :
                   x < y => \A k \in origins(x), o \in origins(y) : k < o
             /\ \A x \in DOMAIN out : \A k \in origins(x) : ~TaskRaised(k)
             /\ request.failures = {}
                   => /\ Len(out) = Len(request.leads)
                      /\ \A x \in DOMAIN out :
                            /\ SameLead(out[x], request.leads[x])
                            /\ Keys(out[x].enrichment_data) = {LINKEDIN}
                            /\ out[x].completeness_score /= NoScore

\* C38: of five leads in batches of three and two, the tasks of the second
\* and the fifth raised; the first, third and fourth came back in that order
C38_Witness ==
    /\ response.pc = "returned"
    /\ request.intensity = STANDARD
    /\ Len(request.leads) = 5
    /\ request.failures = {<<2, task_exception>>, <<5, task_exception>>}
    /\ Len(response.enriched_leads) = 3
    /\ SameLead(response.enriched_leads[1], request.leads[1])
    /\ SameLead(response.enriched_leads[2], request.leads[3])
    /\ SameLead(response.enriched_leads[3], request.leads[4])

---------------------------------------------------------------------------
(* _estimate_job_duration *)

\* The names the imports of routes.py bind from the models, the
\* orchestrator and the schemas
routes_names ==
    {"JobStatus", "Lead", "ScrapingJob", "get_db", "ScrapingOrchestrator",
     "ErrorResponse", "ExportRequest", "ExportResponse", "JobResultsResponse",
     "JobStatusResponse", "ScrapingRequest", "ScrapingResponse",
     "SystemStatsResponse"}

\* _estimate_job_duration(request): building intensity_multiplier looks up
\* the name ScrapingIntensity, a NameError when routes.py has not bound it;
\* otherwise int(60 * min(max_results / 100, 5) * multiplier * (1 + 0.5 n)),
\* counted as min(max_results, 500) * multiplier * (2 + n) * 60 / 200
_estimate_job_duration(params) ==
    IF "ScrapingIntensity" \notin routes_names
    THEN [raised |-> TRUE, value |-> 0]
    ELSE LET intensity_multiplier ==
                CASE params.intensity = BASIC -> 1
                  [] params.intensity = STANDARD -> 2
                  [] params.intensity = PREMIUM -> 4
             total_time ==
                Min(params.max_results, 500) * intensity_multiplier
                    * (2 + Len(params.platforms)) * 3
         IN  [raised |-> FALSE, value |-> total_time \div 10]

\* C32: the answer to a valid submission carries the estimated duration
\* 60 * min(max_results / 100, 5) * multiplier * (1 + 0.5 * platform count)
\* seconds, truncated, with multiplier 1, 2, 4 for basic, standard, premium.
C32_EstimatedDuration ==
    response.op = "create"
      => LET params == jobs[response.job_id].request_params
             estimate == _estimate_job_duration(params)
             multiplier == IF params.intensity = BASIC THEN 1
                           ELSE IF params.intensity = STANDARD THEN 2 ELSE 4
         IN  /\ response.code = 200
             /\ ~estimate.raised
             /\ estimate.value
                  = (60 * Min(params.max_results, 500) * multiplier
                        * (2 + Len(params.platforms))) \div 200

====
